---------------------------- MODULE Spec2Model ----------------------------
(***************************************************************************)
(* A model of hash.c: the digit packer, the quadratic scrambler            *)
(* (digit_return, pow10ll, isqrt, quadratic_roots, quadratic_division),    *)
(* the MurmurHash3-style finalizer and the "%016llx" formatter, together   *)
(* with the static output buffer `out` that every call of hash() reuses.   *)
(*                                                                         *)
(* TLC's integers are 32 bits wide, the program's are 64 bits wide.  A C   *)
(* `long long` is therefore a record [neg, mag]: a sign and a magnitude    *)
(* held as a little-endian sequence of base-10000 limbs without leading    *)
(* zero limbs (123456789 is <<6789, 2345, 1>>).  A `uint64_t` is a         *)
(* little-endian sequence of exactly 8 bytes.  The C operators             *)
(* (+ - * / % on long long, * ^ >> on uint64_t) are computed on these      *)
(* representations with the semantics of the C operator: division          *)
(* truncates toward zero, unsigned arithmetic wraps at 2^64.  The          *)
(* operators on magnitudes and on long long are functions, so that every   *)
(* operand is a value when the operator is applied to it.                  *)
(***************************************************************************)
EXTENDS Integers, Sequences, FiniteSets, TLC

(***************************************************************************)
(* Magnitudes: little-endian base-10000 limbs.                             *)
(***************************************************************************)
Base == 10000

Mag == Seq(Nat)

Trim[s \in Mag] ==
    IF s = <<>> THEN s
    ELSE IF s[Len(s)] = 0 THEN Trim[SubSeq(s, 1, Len(s) - 1)] ELSE s

\* the magnitude of a TLC integer i >= 0
RECURSIVE Limbs(_)
Limbs(i) == IF i = 0 THEN <<>> ELSE <<i % Base>> \o Limbs(i \div Base)

Limb(s, i) == IF i <= Len(s) THEN s[i] ELSE 0

MaxOf(m, n) == IF m < n THEN n ELSE m

NCmpFrom[a \in Mag, b \in Mag, i \in Nat] ==
    IF i = 0 THEN 0
    ELSE IF a[i] < b[i] THEN -1
    ELSE IF a[i] > b[i] THEN 1
    ELSE NCmpFrom[a, b, i - 1]

\* -1, 0, 1 as a < b, a = b, a > b
NCmp[a \in Mag, b \in Mag] ==
    IF Len(a) < Len(b) THEN -1
    ELSE IF Len(a) > Len(b) THEN 1
    ELSE NCmpFrom[a, b, Len(a)]

NLt[a \in Mag, b \in Mag] == NCmp[a, b] < 0
NLe[a \in Mag, b \in Mag] == NCmp[a, b] <= 0

NAddFrom[a \in Mag, b \in Mag, i \in Nat, carry \in Nat, acc \in Mag] ==
    IF i > MaxOf(Len(a), Len(b))
    THEN IF carry = 0 THEN acc ELSE Append(acc, carry)
    ELSE LET s == Limb(a, i) + Limb(b, i) + carry
         IN  NAddFrom[a, b, i + 1, s \div Base, Append(acc, s % Base)]

NAdd[a \in Mag, b \in Mag] == NAddFrom[a, b, 1, 0, <<>>]

NSubFrom[a \in Mag, b \in Mag, i \in Nat, borrow \in Nat, acc \in Mag] ==
    IF i > Len(a) THEN acc
    ELSE LET d == a[i] - Limb(b, i) - borrow
         IN  IF d < 0 THEN NSubFrom[a, b, i + 1, 1, Append(acc, d + Base)]
                      ELSE NSubFrom[a, b, i + 1, 0, Append(acc, d)]

\* a - b for a >= b
NSub[a \in Mag, b \in Mag] == Trim[NSubFrom[a, b, 1, 0, <<>>]]

NMulLimbFrom[a \in Mag, k \in Nat, i \in Nat, carry \in Nat, acc \in Mag] ==
    IF i > Len(a)
    THEN IF carry = 0 THEN acc ELSE Append(acc, carry)
    ELSE LET p == a[i] * k + carry
         IN  NMulLimbFrom[a, k, i + 1, p \div Base, Append(acc, p % Base)]

\* a * k for one limb k, shifted left by `shift` limbs
NMulLimb[a \in Mag, k \in Nat, shift \in Nat] ==
    IF k = 0 \/ a = <<>> THEN <<>>
    ELSE NMulLimbFrom[a, k, 1, 0, [j \in 1..shift |-> 0]]

NMulFrom[a \in Mag, b \in Mag, j \in Nat, acc \in Mag] ==
    IF j > Len(b) THEN acc
    ELSE NMulFrom[a, b, j + 1, NAdd[acc, NMulLimb[a, b[j], j - 1]]]

NMul[a \in Mag, b \in Mag] == NMulFrom[a, b, 1, <<>>]

\* the largest q in lo..hi with q * d <= r, given lo * d <= r
QSearch[r \in Mag, d \in Mag, lo \in Nat, hi \in Nat] ==
    IF lo >= hi THEN lo
    ELSE LET mid == (lo + hi + 1) \div 2
         IN  IF NLe[NMulLimb[d, mid, 0], r] THEN QSearch[r, d, mid, hi]
                                            ELSE QSearch[r, d, lo, mid - 1]

\* The quotient r \div d for d <= r < Base * d.  With dt the top limb of d
\* and rt the limbs of r above the rest of d, it lies between
\* rt \div (dt + 1) and rt \div dt.
QDigit[r \in Mag, d \in Mag] ==
    LET dt == d[Len(d)]
        rt == IF Len(r) > Len(d) THEN r[Len(r)] * Base + r[Len(r) - 1]
                                 ELSE r[Len(r)]
        hi == IF rt \div dt < Base THEN rt \div dt ELSE Base - 1
    IN  QSearch[r, d, rt \div (dt + 1), hi]

\* long division, one limb of n at a time from the top; q and r accumulate
NDivFrom[n \in Mag, d \in Mag, i \in Nat, q \in Mag, r \in Mag] ==
    IF i = 0 THEN [q |-> Trim[q], r |-> r]
    ELSE LET r1 == Trim[<<n[i]>> \o r]
             qd == IF NLt[r1, d] THEN 0 ELSE QDigit[r1, d]
         IN  NDivFrom[n, d, i - 1, <<qd>> \o q, NSub[r1, NMulLimb[d, qd, 0]]]

\* quotient and remainder of n by d, d > 0
NDivMod[n \in Mag, d \in Mag] == NDivFrom[n, d, Len(n), <<>>, <<>>]

(***************************************************************************)
(* long long: sign and magnitude.  Zero is never negative, so equal values *)
(* are equal records.                                                      *)
(***************************************************************************)
LongLong == [neg : BOOLEAN, mag : Mag]

Signed[neg \in BOOLEAN, mag \in Mag] ==
    [neg |-> neg /\ mag # <<>>, mag |-> mag]

LL(i) == IF i < 0 THEN Signed[TRUE, Limbs(-i)] ELSE Signed[FALSE, Limbs(i)]

IsZero[p \in LongLong] == p.mag = <<>>

SNeg[p \in LongLong] == Signed[~p.neg, p.mag]

SAdd[p \in LongLong, q \in LongLong] ==
    IF p.neg = q.neg THEN Signed[p.neg, NAdd[p.mag, q.mag]]
    ELSE IF NLe[q.mag, p.mag] THEN Signed[p.neg, NSub[p.mag, q.mag]]
    ELSE Signed[q.neg, NSub[q.mag, p.mag]]

SSub[p \in LongLong, q \in LongLong] == SAdd[p, SNeg[q]]

SMul[p \in LongLong, q \in LongLong] ==
    Signed[p.neg # q.neg, NMul[p.mag, q.mag]]

\* C's / on long long truncates toward zero; q is not zero
SDiv[p \in LongLong, q \in LongLong] ==
    Signed[p.neg # q.neg, NDivMod[p.mag, q.mag].q]

\* C's %: the remainder has the sign of the dividend; q is not zero
SMod[p \in LongLong, q \in LongLong] ==
    Signed[p.neg, NDivMod[p.mag, q.mag].r]

SLt[p \in LongLong, q \in LongLong] ==
    IF p.neg # q.neg THEN p.neg
    ELSE IF p.neg THEN NLt[q.mag, p.mag] ELSE NLt[p.mag, q.mag]

SLe[p \in LongLong, q \in LongLong] == ~SLt[q, p]

\* LLONG_MAX = 2^63 - 1 = 9223372036854775807
LLONG_MAX == <<5807, 5477, 368, 3372, 922>>

FitsLL[p \in LongLong] == NLe[p.mag, LLONG_MAX]

(***************************************************************************)
(* uint64_t: 8 bytes, little-endian.                                       *)
(***************************************************************************)
\* the low 8 bytes of a magnitude, by repeated division by 256
RECURSIVE BytesFrom(_, _)
BytesFrom(m, acc) ==
    IF Len(acc) = 8 THEN acc
    ELSE LET h == NDivMod[m, <<256>>]
         IN  BytesFrom(h.q, Append(acc, Limb(h.r, 1)))

RECURSIVE UIncFrom(_, _, _, _)
UIncFrom(a, i, carry, acc) ==
    IF i > 8 THEN acc
    ELSE UIncFrom(a, i + 1, (a[i] + carry) \div 256,
                  Append(acc, (a[i] + carry) % 256))

\* two's complement negation: ~a + 1
UNeg(a) == UIncFrom([i \in 1..8 |-> 255 - a[i]], 1, 1, <<>>)

\* the conversion (uint64_t)p of a long long p
U64(p) == IF p.neg THEN UNeg(BytesFrom(p.mag, <<>>)) ELSE BytesFrom(p.mag, <<>>)

RECURSIVE XorBits(_, _, _)
XorBits(x, y, n) ==
    IF n = 0 THEN 0
    ELSE ((x + y) % 2) + 2 * XorBits(x \div 2, y \div 2, n - 1)

\* a ^ b
UXor(a, b) == [i \in 1..8 |-> XorBits(a[i], b[i], 8)]

\* a >> n, 0 <= n < 64
UShr(a, n) ==
    LET bytes == n \div 8
        bits  == n % 8
        B(j)  == IF j <= 8 THEN a[j] ELSE 0
    IN  [i \in 1..8 |->
            (B(i + bytes) \div (2 ^ bits))
            + (B(i + bytes + 1) % (2 ^ bits)) * (2 ^ (8 - bits))]

RECURSIVE ColSum(_, _, _, _, _)
ColSum(a, b, k, i, acc) ==
    IF i > k THEN acc
    ELSE ColSum(a, b, k, i + 1, acc + a[i] * b[k + 1 - i])

RECURSIVE UMulFrom(_, _, _, _, _)
UMulFrom(a, b, k, carry, acc) ==
    IF k > 8 THEN acc
    ELSE LET s == ColSum(a, b, k, 1, carry)
         IN  UMulFrom(a, b, k + 1, s \div 256, Append(acc, s % 256))

\* a * b modulo 2^64
UMul(a, b) == UMulFrom(a, b, 1, 0, <<>>)

(***************************************************************************)
(* Division by zero is undefined behaviour.  What it does is fixed by the  *)
(* build: x86 idiv raises SIGFPE, AArch64 sdiv yields 0, RISC-V div yields *)
(* -1.  A build is a record [trap, q]: whether a zero divisor traps, and   *)
(* the quotient the division yields when it does not.                      *)
(***************************************************************************)
DivZeroBuilds ==
    { [trap |-> TRUE,  q |-> LL(0)],
      [trap |-> FALSE, q |-> LL(0)],
      [trap |-> FALSE, q |-> LL(-1)] }

\* p / q as the build dz computes it when it does not trap
Quot(p, q, dz) == IF IsZero[q] THEN dz.q ELSE SDiv[p, q]

(***************************************************************************)
(* hash.c, lines 13-48: digit_return, pow10ll, isqrt                       *)
(***************************************************************************)
RECURSIVE digit_loop(_, _)
digit_loop(num, digits) ==
    IF SLt[LL(0), num] THEN digit_loop(SDiv[num, LL(10)], digits + 1)
    ELSE digits

digit_return(num) == IF IsZero[num] THEN 1 ELSE digit_loop(num, 0)

RECURSIVE pow10_loop(_, _)
pow10_loop(n, r) == IF n > 0 THEN pow10_loop(n - 1, SMul[r, LL(10)]) ELSE r

pow10ll(n) == pow10_loop(n, LL(1))

\* a variant of the first estimate: y = x / 2
isqrt_init_floor(x) == SDiv[x, LL(2)]

\* long long y = (x + 1) / 2;
isqrt_init(x) == SDiv[SAdd[x, LL(1)], LL(2)]

\* the loop body after x = y:  y = (x + n / x) / 2
isqrt_body(n, x, dz) == SDiv[SAdd[x, Quot(n, x, dz)], LL(2)]

\* while (y < x) { x = y; y = (x + n / x) / 2; }  return x;
\* divzero records that some n / x had x = 0
RECURSIVE isqrt_loop(_, _, _, _, _)
isqrt_loop(n, x, y, dz, divzero) ==
    IF SLt[y, x]
    THEN IF IsZero[y] /\ dz.trap
         THEN [val |-> y, divzero |-> TRUE, trap |-> TRUE]
         ELSE isqrt_loop(n, y, isqrt_body(n, y, dz), dz, divzero \/ IsZero[y])
    ELSE [val |-> x, divzero |-> divzero, trap |-> FALSE]

isqrt(n, dz) == isqrt_loop(n, n, isqrt_init(n), dz, FALSE)

(***************************************************************************)
(* hash.c, lines 57-99: quadratic_roots, quadratic_division                *)
(***************************************************************************)
Abs(p) == IF p.neg THEN SNeg[p] ELSE p

\* The result records the two parts as they are packed, whether a division
\* by zero was executed (divzero) and whether the call trapped on it.
quadratic_roots(a, b, c, dz) ==
    LET discriminant == SSub[SMul[b, b], SMul[SMul[LL(4), a], c]]
        twoA   == SMul[LL(2), a]
        base   == Quot(SNeg[b], twoA, dz)
        sqrt_d == isqrt(Abs(discriminant), dz)
        root1  == SAdd[base, Quot(sqrt_d.val, twoA, dz)]
        root2  == SSub[base, Quot(sqrt_d.val, twoA, dz)]
        real   == IF SLt[discriminant, LL(0)] THEN base
                  ELSE IF SLt[root1, root2] THEN root1 ELSE root2
        imag   == IF SLt[discriminant, LL(0)] THEN sqrt_d.val
                  ELSE IF SLt[root1, root2] THEN root2 ELSE root1
    IN  IF (IsZero[twoA] /\ dz.trap) \/ sqrt_d.trap
        THEN [trap |-> TRUE, divzero |-> TRUE,
              real_part |-> LL(0), imag_part |-> LL(0), ret |-> LL(0)]
        ELSE [trap |-> FALSE, divzero |-> IsZero[twoA] \/ sqrt_d.divzero,
              real_part |-> Abs(real), imag_part |-> Abs(imag),
              ret |-> SAdd[SMul[Abs(real), LL(1000000)], Abs(imag)]]

\* a variant of the split: the leading chunk cut at 10^(2*div)
quadratic_division_p2(num, digits) ==
    LET div == digits \div 3
        p1  == pow10ll(div)
        p2  == pow10ll(2 * div)
    IN  [constant |-> SMod[num, p1],
         x        |-> SMod[SDiv[num, p1], p1],
         x_square |-> SDiv[num, p2]]

\* lines 88-96: the three chunks handed to quadratic_roots
quadratic_division(num, digits) ==
    LET div == digits \div 3
        rem == digits - 2 * div
        p1  == pow10ll(div)
        p2  == pow10ll(div + rem)
    IN  [constant |-> SMod[num, p1],
         x        |-> SMod[SDiv[num, p1], p1],
         x_square |-> SDiv[num, p2]]

(***************************************************************************)
(* hash.c, lines 105-137: the packer's loop body, the finalizer, the       *)
(* formatter                                                               *)
(***************************************************************************)
\* a variant of the slot sizes: no three-digit slot
MultiplierTwoSlots(ch) == IF ch < 10 THEN 10 ELSE 100

\* lines 115-117
Multiplier(ch) == IF ch < 10 THEN 10 ELSE IF ch < 100 THEN 100 ELSE 1000

\* lines 115-119: num *= ...; num += ch;
PackStep(num, ch) == SAdd[SMul[num, LL(Multiplier(ch))], LL(ch)]

GoldenSalt == <<21, 124, 74, 127, 185, 121, 55, 158>>   \* 0x9E3779B97F4A7C15
MixMul1    == <<205, 140, 85, 237, 215, 175, 81, 255>>  \* 0xFF51AFD7ED558CCD
MixMul2    == <<83, 236, 133, 26, 254, 185, 206, 196>>  \* 0xC4CEB9FE1A85EC53

\* h ^= h >> 33
XorShift33(h) == UXor(h, UShr(h, 33))

\* lines 127-132
Finalize(num, quad) ==
    LET h0 == UXor(U64(num), UMul(U64(quad), GoldenSalt))
        h1 == UMul(XorShift33(h0), MixMul1)
        h2 == UMul(XorShift33(h1), MixMul2)
    IN  XorShift33(h2)

\* the character printf writes for one hexadecimal digit with %x
HexDigit(d) == IF d < 10 THEN 48 + d ELSE 87 + d

\* the 16 hexadecimal digits of h, most significant first
Nibbles(h) ==
    [k \in 1..16 |-> IF k % 2 = 1 THEN h[8 - (k - 1) \div 2] \div 16
                                  ELSE h[8 - (k - 1) \div 2] % 16]

RECURSIVE DropZeros(_)
DropZeros(s) ==
    IF Len(s) > 1 /\ s[1] = 0 THEN DropZeros(Tail(s)) ELSE s

\* a variant of the conversion: "%llx", no padding
PrintfLlx(h) ==
    LET digits == DropZeros(Nibbles(h))
    IN  [k \in 1..Len(digits) |-> HexDigit(digits[k])]

\* "%016llx": the digits of h without leading zeros (one digit for 0),
\* padded on the left with '0' to a width of 16
Printf016llx(h) ==
    LET digits == DropZeros(Nibbles(h))
        pad    == IF Len(digits) < 16 THEN 16 - Len(digits) ELSE 0
    IN  [k \in 1..pad |-> 48] \o [k \in 1..Len(digits) |-> HexDigit(digits[k])]

OutSize == 17

\* snprintf(out, sizeof(out), ...): at most sizeof(out) - 1 characters of the
\* text, then the terminator; the bytes after it are left as they are
Snprintf(buf, text) ==
    LET n == IF Len(text) < OutSize - 1 THEN Len(text) ELSE OutSize - 1
    IN  [k \in 1..OutSize |->
            IF k <= n THEN text[k] ELSE IF k = n + 1 THEN 0 ELSE buf[k]]

(***************************************************************************)
(* hash() as a function of its argument: lines 110-135 run from the first  *)
(* to the last.  trap says that the call died on a division by zero, out   *)
(* is what the call leaves in a buffer that held buf.                      *)
(***************************************************************************)
RECURSIVE PackFrom(_, _, _)
PackFrom(str, i, num) ==
    IF i > Len(str) THEN num
    ELSE PackFrom(str, i + 1, PackStep(num, str[i]))

hash(str, buf, dz) ==
    LET num    == PackFrom(str, 1, LL(0))
        digits == digit_return(num)
        chunks == quadratic_division(num, digits)
        roots  == quadratic_roots(chunks.x_square, chunks.x, chunks.constant, dz)
    IN  [trap |-> roots.trap,
         out  |-> IF roots.trap THEN buf
                  ELSE Snprintf(buf, Printf016llx(Finalize(num, roots.ret)))]

(***************************************************************************)
(* The program as a state machine.                                         *)
(*                                                                         *)
(*   frame[t]  the call frame of hash() in thread t: its position pc, its  *)
(*             argument str and its local variables                        *)
(*   out       `static char out[17]`, shared by every call                 *)
(*   caller[t] the caller of hash() in thread t: its own copy of the       *)
(*             result, how far it has copied, whether it is done, and the  *)
(*             argument of its previous call                               *)
(*   mutex     the thread that holds the callers' mutex, 0 when free       *)
(*   locking   whether the callers serialise their calls with the mutex    *)
(*   build     what a division by zero does in this build                  *)
(*   sq        a call of isqrt() run on its own, one loop pass at a time   *)
(*   sched     the thread that ran last, and the number of switches so far *)
(***************************************************************************)
VARIABLES frame, out, caller, mutex, locking, build, sq, sched

vars == <<frame, out, caller, mutex, locking, build, sq, sched>>

Threads == {1, 2}

\* how often the processor may leave one thread for the other
MaxSwitches == 2

\* bounds of the inputs
MaxLen == 2
Alphabet == {97, 100, 121}               \* 'a', 'd', 'y'

Strings(alphabet, n) == UNION { [1..m -> alphabet] : m \in 0..n }

Inputs == Strings(Alphabet, MaxLen)

\* arguments whose packed integers have 18 and 19 decimal digits:
\* "ccc   ccc", "zzzzzz", "zzzzzaa"
LongInputs ==
    { <<99, 99, 99, 32, 32, 32, 99, 99, 99>>,
      <<122, 122, 122, 122, 122, 122>>,
      <<122, 122, 122, 122, 122, 97, 97>> }

ZeroOut == [k \in 1..OutSize |-> 0]
ZeroU64 == [j \in 1..8 |-> 0]

IdleFrame ==
    [pc |-> "idle", str |-> <<>>, i |-> 1, num |-> LL(0), digits |-> 0,
     x_square |-> LL(0), x |-> LL(0), constant |-> LL(0),
     real_part |-> LL(0), imag_part |-> LL(0), quad |-> LL(0),
     h |-> ZeroU64, k |-> 1, divzero |-> FALSE]

\* no C string holds the byte 0: the mark of "no call yet"
NoArg == <<0>>

IdleCaller == [copy |-> ZeroOut, c |-> 1, done |-> FALSE, prev |-> NoArg]

IdleSq == [pc |-> "off", n |-> LL(0), x |-> LL(0), y |-> LL(0), divzero |-> FALSE]

\* A trap (SIGFPE) ends the process, and signed overflow in the packer is
\* undefined: no thread takes a step after either.
Running == \A t \in Threads : frame[t].pc \notin {"trap", "overflow"}

IdleSched == [last |-> 0, switches |-> 0]

\* thread t gets the processor
Turn(t) ==
    /\ Running
    /\ sched.last \in {0, t} \/ sched.switches < MaxSwitches
    /\ sched' = [last |-> t,
                 switches |-> IF sched.last \in {0, t} THEN sched.switches
                                                       ELSE sched.switches + 1]

\* a variant of the entry: num keeps its value from the call before
EnterFrameStaleNum(f, s) ==
    [f EXCEPT !.pc = "pack", !.str = s, !.i = 1, !.divzero = FALSE]

\* line 105-110: entry with argument s; num = 0
EnterFrame(f, s) ==
    [f EXCEPT !.pc = "pack", !.str = s, !.i = 1, !.num = LL(0),
              !.divzero = FALSE]

Call(t, s) ==
    /\ Turn(t)
    /\ frame[t].pc \in {"idle", "ret"}
    /\ ~caller[t].done
    /\ locking => mutex = t
    /\ frame' = [frame EXCEPT ![t] = EnterFrame(@, s)]
    /\ caller' = [caller EXCEPT ![t] =
                     [IdleCaller EXCEPT !.prev =
                         IF frame[t].pc = "ret" THEN frame[t].str ELSE NoArg]]
    /\ UNCHANGED <<out, mutex, locking, build, sq>>

\* lines 111-120: one pass of the loop
PackBody(f) ==
    LET next == PackStep(f.num, f.str[f.i])
    IN  IF FitsLL[next] THEN [f EXCEPT !.num = next, !.i = f.i + 1]
                        ELSE [f EXCEPT !.pc = "overflow"]

PackChar(t) ==
    /\ Turn(t)
    /\ frame[t].pc = "pack"
    /\ frame[t].i <= Len(frame[t].str)
    /\ frame' = [frame EXCEPT ![t] = PackBody(@)]
    /\ UNCHANGED <<out, caller, mutex, locking, build, sq>>

\* line 123, after the loop has seen the terminator
DigitsBody(f) == [f EXCEPT !.digits = digit_return(f.num), !.pc = "split"]

Digits(t) ==
    /\ Turn(t)
    /\ frame[t].pc = "pack"
    /\ frame[t].i > Len(frame[t].str)
    /\ frame' = [frame EXCEPT ![t] = DigitsBody(@)]
    /\ UNCHANGED <<out, caller, mutex, locking, build, sq>>

\* line 124 and lines 88-96
SplitBody(f) ==
    LET chunks == quadratic_division(f.num, f.digits)
    IN  [f EXCEPT !.x_square = chunks.x_square, !.x = chunks.x,
                  !.constant = chunks.constant, !.pc = "roots"]

Split(t) ==
    /\ Turn(t)
    /\ frame[t].pc = "split"
    /\ frame' = [frame EXCEPT ![t] = SplitBody(@)]
    /\ UNCHANGED <<out, caller, mutex, locking, build, sq>>

\* line 98 and lines 57-80
RootsBody(f, dz) ==
    LET r == quadratic_roots(f.x_square, f.x, f.constant, dz)
    IN  IF r.trap THEN [f EXCEPT !.divzero = TRUE, !.pc = "trap"]
        ELSE [f EXCEPT !.divzero = r.divzero, !.real_part = r.real_part,
                       !.imag_part = r.imag_part, !.quad = r.ret, !.pc = "mix"]

Roots(t) ==
    /\ Turn(t)
    /\ frame[t].pc = "roots"
    /\ frame' = [frame EXCEPT ![t] = RootsBody(@, build)]
    /\ UNCHANGED <<out, caller, mutex, locking, build, sq>>

\* lines 127-132
MixBody(f) ==
    [f EXCEPT !.h = Finalize(f.num, f.quad), !.k = 1, !.pc = "format"]

Mix(t) ==
    /\ Turn(t)
    /\ frame[t].pc = "mix"
    /\ frame' = [frame EXCEPT ![t] = MixBody(@)]
    /\ UNCHANGED <<out, caller, mutex, locking, build, sq>>

\* a variant of the store: snprintf(out, sizeof(out) - 1, ...)
FormatStoreShort(buf, h, k) ==
    [buf EXCEPT ![k] = IF k < OutSize - 1 THEN Printf016llx(h)[k]
                       ELSE IF k = OutSize - 1 THEN 0 ELSE buf[k]]

\* line 135: snprintf stores one byte of out after the other
FormatStore(buf, h, k) == [buf EXCEPT ![k] = Snprintf(buf, Printf016llx(h))[k]]

FormatChar(t) ==
    /\ Turn(t)
    /\ frame[t].pc = "format"
    /\ frame[t].k <= OutSize
    /\ out' = FormatStore(out, frame[t].h, frame[t].k)
    /\ frame' = [frame EXCEPT ![t].k = @ + 1]
    /\ UNCHANGED <<caller, mutex, locking, build, sq>>

\* line 136
Return(t) ==
    /\ Turn(t)
    /\ frame[t].pc = "format"
    /\ frame[t].k > OutSize
    /\ frame' = [frame EXCEPT ![t].pc = "ret"]
    /\ UNCHANGED <<out, caller, mutex, locking, build, sq>>

Init ==
    /\ frame = [t \in Threads |-> IdleFrame]
    /\ out = ZeroOut
    /\ caller = [t \in Threads |-> IdleCaller]
    /\ mutex = 0
    /\ locking = FALSE
    /\ build \in DivZeroBuilds
    /\ sq = IdleSq
    /\ sched = IdleSched

\* one thread calls hash() again and again
Next ==
    \/ \E s \in Inputs : Call(1, s)
    \/ PackChar(1)
    \/ Digits(1)
    \/ Split(1)
    \/ Roots(1)
    \/ Mix(1)
    \/ FormatChar(1)
    \/ Return(1)

Spec == Init /\ [][Next]_vars

\* the same thread with arguments near the top of the representable range
NextLong ==
    \/ \E s \in LongInputs : Call(1, s)
    \/ PackChar(1)
    \/ Digits(1)
    \/ Split(1)
    \/ Roots(1)
    \/ Mix(1)
    \/ FormatChar(1)
    \/ Return(1)

SpecLong == Init /\ [][NextLong]_vars

(***************************************************************************)
(* The formatter on its own: line 135 for sample values of h.              *)
(***************************************************************************)
FmtBytes == {0, 1, 10, 159}

\* two chosen bytes in two chosen places, the rest all 0x00 or all 0xff
FmtValues ==
    { [j \in 1..8 |-> IF j = p THEN b1 ELSE IF j = q THEN b2 ELSE fill] :
        p \in 1..8, q \in 1..8, b1 \in FmtBytes, b2 \in FmtBytes,
        fill \in {0, 255} }

\* what the buffer may hold on entry: nothing yet, or an earlier digest
OldOuts == { ZeroOut, [k \in 1..OutSize |-> IF k = OutSize THEN 0 ELSE 102] }

InitFmt ==
    /\ \E hv \in FmtValues :
          frame = [t \in Threads |->
                      IF t = 1 THEN [IdleFrame EXCEPT !.pc = "format", !.h = hv]
                               ELSE IdleFrame]
    /\ out \in OldOuts
    /\ caller = [t \in Threads |-> IdleCaller]
    /\ mutex = 0
    /\ locking = FALSE
    /\ build = [trap |-> TRUE, q |-> LL(0)]
    /\ sq = IdleSq
    /\ sched = IdleSched

NextFmt == FormatChar(1) \/ Return(1)

SpecFmt == InitFmt /\ [][NextFmt]_vars

(***************************************************************************)
(* The packer on its own: two runs of the loop of lines 111-120, side by   *)
(* side, on two arguments.                                                 *)
(***************************************************************************)
PackMaxLen == 2
PackAlphabet == {2, 6, 26, 27, 126}

PackInputs == Strings(PackAlphabet, PackMaxLen)

InitPack ==
    /\ \E s1 \in PackInputs, s2 \in PackInputs :
          frame = [t \in Threads |->
                      EnterFrame(IdleFrame, IF t = 1 THEN s1 ELSE s2)]
    /\ out = ZeroOut
    /\ caller = [t \in Threads |-> IdleCaller]
    /\ mutex = 0
    /\ locking = FALSE
    /\ build = [trap |-> TRUE, q |-> LL(0)]
    /\ sq = IdleSq
    /\ sched = IdleSched

NextPack == PackChar(1) \/ PackChar(2)

SpecPack == InitPack /\ [][NextPack]_vars

(***************************************************************************)
(* Two threads, one call each, each with its own argument, on the one      *)
(* static buffer.  A caller copies the 17 bytes of the returned buffer     *)
(* into its own storage.  When `locking` holds, a caller takes the mutex   *)
(* before the call and releases it after the copy.                         *)
(***************************************************************************)
ConcInput == << <<100>>, <<121>> >>      \* thread 1 hashes "d", thread 2 "y"

\* neither argument divides by zero: one build stands for all
ConcBuild == [trap |-> TRUE, q |-> LL(0)]

Lock(t) ==
    /\ Turn(t)
    /\ locking
    /\ mutex = 0
    /\ frame[t].pc = "idle"
    /\ ~caller[t].done
    /\ mutex' = t
    /\ UNCHANGED <<frame, out, caller, locking, build, sq>>

CopyChar(t) ==
    /\ Turn(t)
    /\ frame[t].pc = "ret"
    /\ caller[t].c <= OutSize
    /\ caller' = [caller EXCEPT ![t].copy[caller[t].c] = out[caller[t].c],
                                ![t].c = @ + 1]
    /\ UNCHANGED <<frame, out, mutex, locking, build, sq>>

Release(t) ==
    /\ Turn(t)
    /\ frame[t].pc = "ret"
    /\ caller[t].c > OutSize
    /\ ~caller[t].done
    /\ caller' = [caller EXCEPT ![t].done = TRUE]
    /\ mutex' = IF locking THEN 0 ELSE mutex
    /\ UNCHANGED <<frame, out, locking, build, sq>>

InitConc ==
    /\ frame = [t \in Threads |-> IdleFrame]
    /\ out = ZeroOut
    /\ caller = [t \in Threads |-> IdleCaller]
    /\ mutex = 0
    /\ locking \in BOOLEAN
    /\ build = ConcBuild
    /\ sq = IdleSq
    /\ sched = IdleSched

NextConc ==
    \E t \in Threads :
        \/ Lock(t)
        \/ frame[t].pc = "idle" /\ Call(t, ConcInput[t])
        \/ PackChar(t)
        \/ Digits(t)
        \/ Split(t)
        \/ Roots(t)
        \/ Mix(t)
        \/ FormatChar(t)
        \/ Return(t)
        \/ CopyChar(t)
        \/ Release(t)

SpecConc == InitConc /\ [][NextConc]_vars

(***************************************************************************)
(* isqrt() on its own, one pass of its loop at a time (lines 39-48).       *)
(***************************************************************************)
MaxIsqrtN == 150

\* 10^12 - 1, 10^12, and the largest discriminant of "ccc   ccc"
IsqrtLarge ==
    { SSub[SMul[LL(1000000), LL(1000000)], LL(1)],
      SMul[LL(1000000), LL(1000000)],
      SSub[SMul[SMul[LL(4), LL(999999)], LL(999999)],
           SMul[LL(323232), LL(323232)]] }

IsqrtInputs == { LL(v) : v \in 0..MaxIsqrtN } \cup IsqrtLarge

\* lines 41-42
IsqrtEnter ==
    /\ sq.pc = "entry"
    /\ sq' = [sq EXCEPT !.x = sq.n, !.y = isqrt_init(sq.n), !.pc = "loop"]
    /\ UNCHANGED <<frame, out, caller, mutex, locking, build, sched>>

\* lines 43-46: one pass
IsqrtPass ==
    /\ sq.pc = "loop"
    /\ SLt[sq.y, sq.x]
    /\ sq' = IF IsZero[sq.y] /\ build.trap
             THEN [sq EXCEPT !.x = sq.y, !.divzero = TRUE, !.pc = "trap"]
             ELSE [sq EXCEPT !.x = sq.y, !.y = isqrt_body(sq.n, sq.y, build),
                             !.divzero = sq.divzero \/ IsZero[sq.y]]
    /\ UNCHANGED <<frame, out, caller, mutex, locking, build, sched>>

\* line 47
IsqrtReturn ==
    /\ sq.pc = "loop"
    /\ ~SLt[sq.y, sq.x]
    /\ sq' = [sq EXCEPT !.pc = "ret"]
    /\ UNCHANGED <<frame, out, caller, mutex, locking, build, sched>>

InitIsqrt ==
    /\ frame = [t \in Threads |-> IdleFrame]
    /\ out = ZeroOut
    /\ caller = [t \in Threads |-> IdleCaller]
    /\ mutex = 0
    /\ locking = FALSE
    /\ build \in DivZeroBuilds
    /\ \E nv \in IsqrtInputs : sq = [IdleSq EXCEPT !.pc = "entry", !.n = nv]
    /\ sched = IdleSched

NextIsqrt == IsqrtEnter \/ IsqrtPass \/ IsqrtReturn

\* the function runs on: nothing suspends it
SpecIsqrt == InitIsqrt /\ [][NextIsqrt]_vars /\ WF_vars(NextIsqrt)

(***************************************************************************)
(* Properties                                                              *)
(***************************************************************************)
Million == LL(1000000)

\* 999999999999
TwelveNines == SAdd[SMul[LL(999999), Million], LL(999999)]

\* the buffer after one call of hash(str) in this build
Digest(str) == hash(str, ZeroOut, build).out

HexChars == (48..57) \cup (97..102)

\* the value of one hexadecimal digit character, as strtoull reads it
HexValue(c) ==
    IF c \in 48..57 THEN c - 48
    ELSE IF c \in 97..102 THEN c - 87
    ELSE IF c \in 65..70 THEN c - 55
    ELSE -1

\* the 64-bit value of the first 16 characters of buf read in base 16,
\* least significant byte first
ParseHex(buf) ==
    [j \in 1..8 |-> 16 * HexValue(buf[2 * (8 - j) + 1])
                       + HexValue(buf[2 * (8 - j) + 2])]

\* C1: a call of hash on a well-formed printable argument, the empty
\* string and one-character strings included, never divides by zero and
\* never traps: no frame dies in quadratic_roots or isqrt, and no division
\* n / 0 is evaluated.
C1_NeverDividesByZero ==
    \A t \in Threads : frame[t].pc # "trap" /\ ~frame[t].divzero

\* C2: when a call in a sequence of calls has returned, the static buffer
\* holds the digest of that call's argument, a function of the argument
\* alone, whatever was hashed before and whatever the buffer held.
C2_BufferHoldsLastDigest ==
    frame[1].pc = "ret" =>
        \A old \in OldOuts : out = hash(frame[1].str, old, build).out

\* C2, its case: a call has returned after an earlier call with another
\* argument and another digest.
C2_SecondCallReturned ==
    /\ frame[1].pc = "ret"
    /\ caller[1].prev \notin {NoArg, frame[1].str}
    /\ out = Digest(frame[1].str)
    /\ out # Digest(caller[1].prev)

\* C3: when the formatter has returned, the buffer holds 16 characters of
\* 0-9 and a-f and then the terminator, and the 16 characters read in
\* base 16 are the value h that was formatted.
C3_SixteenHexRoundTrip ==
    frame[1].pc = "ret" =>
        /\ \A k \in 1..(OutSize - 1) : out[k] \in HexChars
        /\ out[OutSize] = 0
        /\ ParseHex(out) = frame[1].h

\* C3, its case: 0x0000000000000a9f formatted as "0000000000000a9f".
C3_PaddedValueFormatted ==
    /\ frame[1].pc = "ret"
    /\ frame[1].h = <<159, 10, 0, 0, 0, 0, 0, 0>>
    /\ out = <<48, 48, 48, 48, 48, 48, 48, 48, 48, 48, 48, 48, 48, 97, 57, 102, 0>>

\* the packer's loop of frame t has run to the end of its argument
Packed(t) == frame[t].pc = "pack" /\ frame[t].i > Len(frame[t].str)

\* C4, as claimed: two different byte sequences (bytes 1..255) that pack
\* without overflow pack to different integers.
C4_PackerInjective ==
    (Packed(1) /\ Packed(2) /\ frame[1].str # frame[2].str)
        => frame[1].num # frame[2].num

\* C4, amended: two different sequences of bytes 26..255 that pack without
\* overflow pack to different integers.
C4_PackerInjectiveFrom26 ==
    (/\ Packed(1) /\ Packed(2)
     /\ frame[1].str # frame[2].str
     /\ \A t \in Threads : \A j \in 1..Len(frame[t].str) : frame[t].str[j] >= 26)
        => frame[1].num # frame[2].num

\* C4, its case: <<26, 126>> and <<27, 26>> packed to 26126 and 2726.
C4_TwoSequencesPacked ==
    /\ Packed(1) /\ Packed(2)
    /\ frame[1].str = <<26, 126>> /\ frame[2].str = <<27, 26>>
    /\ frame[1].num = LL(26126) /\ frame[2].num = LL(2726)

\* C5: whenever quadratic_division returns (no division by zero on the
\* way), its value is greater than 0 and at most 999999999999.
C5_QuadPositiveTwelveDigits ==
    \A t \in Threads :
        (frame[t].pc = "mix" /\ ~frame[t].divzero) =>
            /\ SLt[LL(0), frame[t].quad]
            /\ SLe[frame[t].quad, TwelveNines]

\* the digests of the two threads' arguments: what one call of hash on
\* each leaves in the buffer
ConcDigest == [u \in Threads |-> hash(ConcInput[u], ZeroOut, ConcBuild).out]

\* C6: with one mutex held across the call and the copy, a caller that is
\* done holds the digest of its own argument; without the mutex every byte
\* of a caller's copy is the byte, at that place, of the digest of some
\* call that has reached the formatter, and there is an interleaving where
\* the copy is not the caller's own digest.
C6_MutexGivesOwnDigest ==
    \A t \in Threads :
        caller[t].done =>
            /\ frame[t].str = ConcInput[t]
            /\ IF locking
               THEN caller[t].copy = ConcDigest[t]
               ELSE \A k \in 1..OutSize :
                       \E u \in Threads :
                           /\ frame[u].pc \in {"format", "ret"}
                           /\ caller[t].copy[k] = ConcDigest[u][k]

\* C6, its case: without the mutex, thread 1 is done and its copy is not
\* the digest of its argument.
C6_RaceCopiesForeignDigest ==
    /\ ~locking
    /\ caller[1].done
    /\ caller[1].copy # ConcDigest[1]

\* C7: the three chunks cover every digit of num:
\* a * 10^(2*div) + b * 10^div + c = num, with div = digits / 3.
C7_ChunksCoverNum ==
    \A t \in Threads :
        frame[t].pc = "roots" =>
            SAdd[SMul[frame[t].x_square, pow10ll(2 * (frame[t].digits \div 3))],
                 SAdd[SMul[frame[t].x, pow10ll(frame[t].digits \div 3)],
                      frame[t].constant]] = frame[t].num

\* C8: when quadratic_roots has packed its result, real_part and imag_part
\* are at most 999999, so the result divided by 1000000 is real_part and
\* the result modulo 1000000 is imag_part.
C8_FieldsDoNotOverlap ==
    \A t \in Threads :
        (frame[t].pc = "mix" /\ ~frame[t].divzero) =>
            /\ SLe[frame[t].real_part, LL(999999)]
            /\ SLe[frame[t].imag_part, LL(999999)]
            /\ SDiv[frame[t].quad, Million] = frame[t].real_part
            /\ SMod[frame[t].quad, Million] = frame[t].imag_part

\* isqrt has divided by nothing but non-zero values, and what it returns is
\* the r with r * r <= n < (r + 1) * (r + 1)
IsqrtSafe ==
    /\ sq.pc # "trap"
    /\ ~sq.divzero
    /\ sq.pc = "ret" =>
          /\ SLe[SMul[sq.x, sq.x], sq.n]
          /\ SLt[sq.n, SMul[SAdd[sq.x, LL(1)], SAdd[sq.x, LL(1)]]]

\* C9: for n >= 0, isqrt(n) returns, what it returns is floor(sqrt(n)),
\* and it never evaluates n / x with x = 0.
C9_IsqrtReturnsFloorSqrt == []IsqrtSafe /\ <>(sq.pc = "ret")

\* C9, its case: isqrt(0) has returned 0.
C9_IsqrtOfZeroReturned ==
    sq.pc = "ret" /\ sq.n = LL(0) /\ sq.x = LL(0) /\ ~sq.divzero

=============================================================================
